---------------------------- MODULE Spec2Model ----------------------------
(***************************************************************************)
(* A model of the AreoNet backend: the traversability cost-map pipeline    *)
(* (costmap.py), the procedural terrain generators, the augmentor and the  *)
(* renderer (dataset.py).                                                  *)
(*                                                                         *)
(* Numbers.  Costs are rationals; a registry cost is held in hundredths    *)
(* (0.9 is 90) and a cost-grid cell in units of 1/CostOne, CostOne being   *)
(* 100 * 16 * 16: the hundredths of the registry times the two passes of   *)
(* the Gaussian kernel, whose weights are sixteenths.  The arithmetic is   *)
(* exact where the code's is float32; the difference is below one unit of  *)
(* the last place and is not what any property here rests on.              *)
(*                                                                         *)
(* Arrays are records [h, w, a] with a[r][c], r in 1..h and c in 1..w      *)
(* (numpy's row r-1, column c-1).                                          *)
(***************************************************************************)
EXTENDS Integers, Sequences, FiniteSets, TLC

VARIABLES
    pc,     \* "call": fn is about to run on args; "done": it has run
    fn,     \* the function the caller invokes
    args,   \* its arguments
    ret,    \* its outcome: what it raised, what it returned
    rng,    \* state of the np.random.Generator the caller threads through
    prev,   \* an earlier call kept for comparison: [fn, args, ret]
    run     \* the locals of a function that loops, and the files it has written

vars == <<pc, fn, args, ret, rng, prev, run>>

\* ------------------------------------------------------------------ bounds

\* A grid given to the cost pipeline has at most MaxCells cells (h * w).
MaxCells == 4

\* The generators are called with size in -1..MaxSize and seed in 0..MaxSeed.
MaxSize == 3

MaxSeed == 3

\* A uniform class grid given to the cost pipeline has a side up to MaxField.
MaxField == 6

\* generate_dataset is asked for up to MaxN samples.
MaxN == 3

\* train runs for up to MaxEpochs epochs.
MaxEpochs == 3

\* ------------------------------------------------------------- arithmetic

Abs(x) == IF x < 0 THEN -x ELSE x

Min(a, b) == IF a < b THEN a ELSE b

Max(a, b) == IF a > b THEN a ELSE b

\* Truncation toward zero of n / d (d > 0): numpy's astype to an integer type.
Trunc(n, d) == IF n >= 0 THEN n \div d ELSE -((-n) \div d)

\* astype(np.uint8) of an integer value: wraps modulo 2^8.
AsUint8(v) == v % 256

\* astype(np.int8) of an integer value: wraps into -128..127.
AsInt8(v) == ((v + 128) % 256) - 128

\* ------------------------------------------------------------------ arrays

Shapes(n) == {s \in (1..n) \X (1..n) : s[1] * s[2] <= n}

\* Every h x w array, h * w <= n, with cells drawn from S.
Grids(S, n) ==
    UNION {{[h |-> s[1], w |-> s[2], a |-> m] :
              m \in [1..s[1] -> [1..s[2] -> S]]} : s \in Shapes(n)}

Cells(g) == (1..g.h) \X (1..g.w)

\* np.zeros((h, w)) / np.full((h, w), v)
np_full(h, w, v) == [h |-> h, w |-> w, a |-> [r \in 1..h |-> [c \in 1..w |-> v]]]

\* --------------------------------------------------------------- registries

\* segmentation.py: the registry main.py hands to generate_cost_map.
SEG_TERRAIN_CLASSES ==
    << [id |-> 0, name |-> "Rock",       color |-> "#8B7355", cost |-> 90,  traversable |-> FALSE],
       [id |-> 1, name |-> "Bush",       color |-> "#4A7023", cost |-> 75,  traversable |-> FALSE],
       [id |-> 2, name |-> "Log",        color |-> "#8B4513", cost |-> 85,  traversable |-> FALSE],
       [id |-> 3, name |-> "Sand",       color |-> "#DEB887", cost |-> 20,  traversable |-> TRUE],
       [id |-> 4, name |-> "Landscape",  color |-> "#C4A862", cost |-> 15,  traversable |-> TRUE],
       [id |-> 5, name |-> "Sky",        color |-> "#87CEEB", cost |-> 0,   traversable |-> FALSE],
       [id |-> 6, name |-> "Gravel",     color |-> "#A9A9A9", cost |-> 35,  traversable |-> TRUE],
       [id |-> 7, name |-> "Water",      color |-> "#4169E1", cost |-> 95,  traversable |-> FALSE],
       [id |-> 8, name |-> "Vegetation", color |-> "#228B22", cost |-> 50,  traversable |-> TRUE],
       [id |-> 9, name |-> "Obstacle",   color |-> "#DC143C", cost |-> 100, traversable |-> FALSE] >>

\* dataset.py: the registry of synthesis and rendering.
TERRAIN_CLASSES ==
    << [id |-> 0, name |-> "Rock",       rgb |-> <<139, 115,  85>>, cost |-> 90,  traversable |-> FALSE],
       [id |-> 1, name |-> "Bush",       rgb |-> << 74, 112,  35>>, cost |-> 75,  traversable |-> FALSE],
       [id |-> 2, name |-> "Log",        rgb |-> <<139,  69,  19>>, cost |-> 85,  traversable |-> FALSE],
       [id |-> 3, name |-> "Sand",       rgb |-> <<222, 184, 135>>, cost |-> 20,  traversable |-> TRUE],
       [id |-> 4, name |-> "Landscape",  rgb |-> <<196, 168,  98>>, cost |-> 15,  traversable |-> TRUE],
       [id |-> 5, name |-> "Clear",      rgb |-> <<200, 210, 220>>, cost |-> 10,  traversable |-> TRUE],
       [id |-> 6, name |-> "Gravel",     rgb |-> <<169, 169, 169>>, cost |-> 35,  traversable |-> TRUE],
       [id |-> 7, name |-> "Water",      rgb |-> << 30,  80, 200>>, cost |-> 95,  traversable |-> FALSE],
       [id |-> 8, name |-> "Vegetation", rgb |-> << 34, 139,  34>>, cost |-> 50,  traversable |-> TRUE],
       [id |-> 9, name |-> "Obstacle",   rgb |-> <<220,  20,  60>>, cost |-> 100, traversable |-> FALSE] >>

NUM_CLASSES == Len(TERRAIN_CLASSES)

\* The ids of a registry.
RegistryIds(reg) == {reg[i].id : i \in 1..Len(reg)}

\* The registries a caller hands to generate_cost_map, by name: the two of
\* the repository, a partial one that lists an id twice, and one whose costs
\* leave [0,1] (1.5 and -0.2).
RegistryNames == {"segmentation", "dataset", "partial", "wild"}

Registry(name) ==
    CASE name = "segmentation" -> SEG_TERRAIN_CLASSES
      [] name = "dataset"      -> TERRAIN_CLASSES
      [] name = "partial"      -> << [id |-> 0, cost |-> 100], [id |-> 9, cost |-> 40],
                                     [id |-> 0, cost |-> 60] >>
      [] name = "wild"         -> << [id |-> 0, cost |-> 150], [id |-> 9, cost |-> -20] >>

CostsInUnitInterval(reg) == \A i \in 1..Len(reg) : reg[i].cost \in 0..100

\* The class ids a mask given to the cost pipeline holds: two registry ids
\* and an id no registry lists.
MaskIds == {0, 9, 10}

\* The blur kernel sizes a caller passes.
BlurKernels == -1..5

\* ------------------------------------------------------------ costmap.py

\* One in the unit of a cost-grid cell.
CostOne == 25600

\* The exception an outcome carries when the function returned normally.
NoError == "none"

\* cost_grid after the loop of lines 28-34: zeros, then for each registry
\* entry in order the cells of its id are set to its cost (a later entry of
\* the same id overwrites an earlier one; an id no entry lists stays 0).
RECURSIVE LookupCost(_, _, _)
LookupCost(reg, i, cid) ==
    IF i = 0 THEN 0
    ELSE IF reg[i].id = cid THEN reg[i].cost
    ELSE LookupCost(reg, i - 1, cid)

RawCostGrid(seg_mask, terrain_classes) ==
    [h |-> seg_mask.h, w |-> seg_mask.w,
     a |-> [r \in 1..seg_mask.h |-> [c \in 1..seg_mask.w |->
              LookupCost(terrain_classes, Len(terrain_classes), seg_mask.a[r][c])]]]

\* cv2.getGaussianKernel(k, 0) for the small odd sizes, in sixteenths
\* (OpenCV's fixed table: 1; 1/4 1/2 1/4; 1/16 1/4 3/8 1/4 1/16).
GaussianKernel_box(k) ==
    CASE k = 1 -> <<16>>
      [] k = 3 -> <<5, 5, 5>>
      [] k = 5 -> <<3, 3, 3, 3, 3>>

GaussianKernel(k) ==
    CASE k = 1 -> <<16>>
      [] k = 3 -> <<4, 8, 4>>
      [] k = 5 -> <<1, 4, 6, 4, 1>>

\* cv2.GaussianBlur asserts that a kernel size is positive and odd.
KernelAccepted(k) == k > 0 /\ k % 2 = 1

\* cv2.borderInterpolate(p, len, BORDER_REFLECT_101), p and the result 0-based.
RECURSIVE borderInterpolate(_, _)
borderInterpolate(p, len) ==
    IF len = 1 THEN 0
    ELSE IF p < 0 THEN borderInterpolate(-p, len)
    ELSE IF p >= len THEN borderInterpolate(2 * len - 2 - p, len)
    ELSE p

\* Sum of f[i] over i in lo..hi.
RECURSIVE SumOver(_, _, _)
SumOver(f, lo, hi) == IF lo > hi THEN 0 ELSE f[lo] + SumOver(f, lo + 1, hi)

\* cv2.GaussianBlur, before it builds its kernels, sets the kernel size of a
\* dimension of length 1 to 1 (border type other than BORDER_CONSTANT):
\* "if (size.height == 1) ksize.height = 1; if (size.width == 1)
\* ksize.width = 1".  A 1 x 1 source is then copied whatever k is.
EffectiveKsize(len, k) == IF len = 1 THEN 1 ELSE k

\* The kernel sizes cv2.GaussianBlur ends up asserting on, for this source.
BlurAccepted(src, k) ==
    /\ KernelAccepted(EffectiveKsize(src.w, k))
    /\ KernelAccepted(EffectiveKsize(src.h, k))

\* cv2.GaussianBlur(src, (k, k), 0): the separable kernel over the reflected
\* border.  src is in hundredths, the result in units of 1/CostOne.
GaussianBlur(src, k) ==
    LET kx == GaussianKernel(EffectiveKsize(src.w, k))
        ky == GaussianKernel(EffectiveKsize(src.h, k))
        rx == (Len(kx) - 1) \div 2
        ry == (Len(ky) - 1) \div 2
        At(r, c) == src.a[borderInterpolate(r - 1, src.h) + 1]
                         [borderInterpolate(c - 1, src.w) + 1]
        Row(r, c) == SumOver([d \in -rx..rx |-> kx[d + rx + 1] * At(r, c + d)],
                             -rx, rx)
        Out(r, c) == SumOver([d \in -ry..ry |-> ky[d + ry + 1] * Row(r + d, c)],
                             -ry, ry)
    IN  [h |-> src.h, w |-> src.w,
         a |-> [r \in 1..src.h |-> [c \in 1..src.w |-> Out(r, c)]]]

\* np.clip(v, lo, hi) on one cell.
np_clip_none(v, lo, hi) == v

np_clip(v, lo, hi) == Max(lo, Min(hi, v))

ClipGrid(g) ==
    [h |-> g.h, w |-> g.w,
     a |-> [r \in 1..g.h |-> [c \in 1..g.w |-> np_clip(g.a[r][c], 0, CostOne)]]]

\* The zone thresholds 0.3 and 0.6 of apply_terrain_colormap, in cost units.
SafeBelow == 7680

DangerFrom == 15360

\* Lines 86-87: the channels of a safe cell (cost < 0.3).
SafeGreen(c) == AsUint8(Trunc(255 * (SafeBelow - c), SafeBelow))

SafeRed(c) == AsUint8(Trunc(100 * c, SafeBelow))

\* apply_terrain_colormap: the safe zone is written (lines 85-87), the
\* caution mask and t are computed (lines 90-91), and line 92 evaluates
\* (255).astype(np.uint8), an attribute a Python int does not have: the
\* function raises AttributeError for every cost grid, whether or not a cell
\* is in the caution zone.  Lines 93-101 never run.  rgb is the local array
\* at the raise.
apply_terrain_colormap(cost_grid) ==
    [raised |-> "AttributeError",
     rgb |-> [h |-> cost_grid.h, w |-> cost_grid.w,
              a |-> [r \in 1..cost_grid.h |-> [c \in 1..cost_grid.w |->
                 LET v == cost_grid.a[r][c]
                 IN  IF v < SafeBelow THEN <<SafeRed(v), SafeGreen(v), 0>>
                     ELSE <<0, 0, 0>>]]]]

\* create_cost_heatmap: the JET heat map of lines 55-66 is computed and
\* dropped; the image is apply_terrain_colormap's array, and its exception
\* propagates.
create_cost_heatmap(cost_grid) == apply_terrain_colormap(cost_grid)

\* generate_cost_map.  stage is the step the function reached: "blur" when
\* cv2.GaussianBlur raised on the kernel, "heatmap" when the visualisation
\* raised after cost_grid was clipped (line 41), "return" when line 46
\* returned.  raw and cost_grid are the local arrays at that step.
generate_cost_map(seg_mask, terrain_classes, blur_kernel) ==
    LET raw == RawCostGrid(seg_mask, terrain_classes)
    IN  IF ~BlurAccepted(raw, blur_kernel)
        THEN [raised |-> "cv2.error", stage |-> "blur", raw |-> raw,
              cost_grid |-> raw, cost_map_img |-> <<>>]
        ELSE LET cost_grid == ClipGrid(GaussianBlur(raw, blur_kernel))
                 img == create_cost_heatmap(cost_grid)
             IN  IF img.raised # NoError
                 THEN [raised |-> img.raised, stage |-> "heatmap", raw |-> raw,
                       cost_grid |-> cost_grid, cost_map_img |-> <<>>]
                 ELSE [raised |-> NoError, stage |-> "return", raw |-> raw,
                       cost_grid |-> cost_grid, cost_map_img |-> img.rgb]

\* One cell of the occupancy data: (cost * 100).astype(np.int8).
OccupancyScaled255(c) == AsInt8(Trunc(c * 255, CostOne))

Occupancy(c) == AsInt8(Trunc(c * 100, CostOne))

\* ndarray.flatten(): row-major, data[r * w + c] in numpy's 0-based indices.
Flatten(g) == [i \in 1..(g.h * g.w) |-> g.a[((i - 1) \div g.w) + 1][((i - 1) % g.w) + 1]]

\* export_cost_grid_ros
export_cost_grid_ros(cost_grid, resolution) ==
    LET occupancy == Flatten([h |-> cost_grid.h, w |-> cost_grid.w,
                        a |-> [r \in 1..cost_grid.h |-> [c \in 1..cost_grid.w |->
                                 Occupancy(cost_grid.a[r][c])]]])
    IN  [raised |-> NoError,
         value |-> [header |-> [frame_id |-> "map"],
                    info |-> [resolution |-> resolution,
                              width |-> cost_grid.w,
                              height |-> cost_grid.h],
                    data |-> occupancy]]

\* ------------------------------------------------- numpy random generators

(***************************************************************************)
(* np.random.Generator (PCG64) is a deterministic stream fixed by its seed. *)
(* The model keeps that and nothing else of PCG64: a generator is a state   *)
(* in 0..RngModulus-1, default_rng(seed) is a function of the seed alone,   *)
(* and every draw steps the state and reads the value off the new state.   *)
(***************************************************************************)
RngModulus == 8

default_rng(seed) == (3 * seed + 1) % RngModulus

RngStep(s) == (5 * s + 3) % RngModulus

RECURSIVE RngAdvance(_, _)
RngAdvance(s, n) == IF n <= 0 THEN s ELSE RngAdvance(RngStep(s), n - 1)

\* The n-th value drawn from state s (n >= 1), as the state it is read off.
RngNth(s, n) == RngAdvance(s, n)

\* rng.uniform(0, 2 * np.pi): a phase, in degrees.
UniformPhase(state) == (state * 360) \div RngModulus

\* ------------------------------------------------------------ noise helpers

(***************************************************************************)
(* np.sin and np.cos in fixed point.  Angles are whole degrees, values are  *)
(* thousandths; the sine is Bhaskara's rational approximation              *)
(* 4d(180-d) / (40500 - d(180-d)) on 0..180, odd about 180.                *)
(***************************************************************************)
SinMilli(deg) ==
    LET d == deg % 360
        e == IF d <= 180 THEN d ELSE d - 180
        p == e * (180 - e)
        v == (4000 * p) \div (40500 - p)
    IN  IF d <= 180 THEN v ELSE -v

CosMilli(deg) == SinMilli(deg + 90)

\* The value of a float array cell that is nan (0/0 and what is computed
\* from it): every comparison with it is False.
NaN == -1000000

IsNaN(v) == v = NaN

Gt(v, t) == ~IsNaN(v) /\ v > t

Lt(v, t) == ~IsNaN(v) /\ v < t

\* _pseudo_rand on one cell: frac(sin(gx*(127.1 + seed*0.07) +
\* gy*(311.7 + seed*0.13)) * 43758.5453), in thousandths (0..999).
\* The angle is in hundredths of a radian, 0.573 degrees each.
_pseudo_rand(grid_x, grid_y, seed) ==
    LET angle == grid_x * (12710 + 7 * seed) + grid_y * (31170 + 13 * seed)
        sine  == SinMilli((angle * 573) \div 1000)
        r     == sine * 437585
    IN  (r % 10000000) \div 10000

\* The bands of the three styles: <<fx, fz, amp>>, fx and fz in tenths and
\* amp in hundredths.
DesertBands == << <<30, 25, 40>>, <<90, 70, 20>>, <<160, 120, 8>> >>

RockyBands == << <<50, 40, 55>>, <<100, 80, 25>>, <<200, 150, 10>> >>

MixedBands == << <<40, 30, 35>>, <<100, 80, 15>>, <<180, 140, 6>> >>

\* _sine_noise on the cell whose normalised coordinates are i/den and j/den,
\* in thousandths: a generator seeded by seed alone gives each band its two
\* phases, in band order.  den = 0 is the 0/0 of size 1: nan.
_sine_noise_shared(i, j, den, freqs, seed) ==
    IF den = 0 THEN NaN
    ELSE LET Term(b) ==
               LET px == UniformPhase(RngNth(rng, 2 * b - 1))
                   pz == UniformPhase(RngNth(rng, 2 * b))
                   ax == ((18 * freqs[b][1] * i) \div den) + px
                   az == ((18 * freqs[b][2] * j) \div den) + pz
               IN  Trunc(freqs[b][3] * SinMilli(ax) * CosMilli(az), 100000)
         IN  SumOver([b \in 1..Len(freqs) |-> Term(b)], 1, Len(freqs))

_sine_noise(i, j, den, freqs, seed) ==
    IF den = 0 THEN NaN
    ELSE LET gen == default_rng(seed)
             Term(b) ==
               LET px == UniformPhase(RngNth(gen, 2 * b - 1))
                   pz == UniformPhase(RngNth(gen, 2 * b))
                   ax == ((18 * freqs[b][1] * i) \div den) + px
                   az == ((18 * freqs[b][2] * j) \div den) + pz
               IN  Trunc(freqs[b][3] * SinMilli(ax) * CosMilli(az), 100000)
         IN  SumOver([b \in 1..Len(freqs) |-> Term(b)], 1, Len(freqs))

\* ------------------------------------------------------- terrain generators

(***************************************************************************)
(* A normalised coordinate X = i / (size - 1) is the pair i, den; den = 0   *)
(* is nan.  Comparisons with the decimal thresholds are made exactly, in    *)
(* hundredths.  One threshold meets a coordinate a grid can hold in the     *)
(* floats' rounding: X = 0.4 and X = 0.6 give |X - 0.5| =                   *)
(* 0.09999999999999998 in doubles, which is < 0.1.                          *)
(***************************************************************************)
CoordGt(i, den, t) == den > 0 /\ 100 * i > t * den

CoordLt(i, den, t) == den > 0 /\ 100 * i < t * den

\* np.abs(X - 0.5) < t
AbsHalfLt(i, den, t) ==
    /\ den > 0
    /\ \/ Abs(100 * i - 50 * den) < t * den
       \/ t = 10 /\ Abs(100 * i - 50 * den) = t * den

\* np.abs(X - 0.5) > t
AbsHalfGt(i, den, t) == den > 0 /\ Abs(100 * i - 50 * den) > t * den

\* np.abs(X - Z) < t
AbsDiffLt(i, j, den, t) == den > 0 /\ 100 * Abs(i - j) < t * den

\* The square of np.hypot(X - 0.82, Z - 0.82), times (100 * den)^2.
HypotSq(i, j, den) ==
    (100 * i - 82 * den) * (100 * i - 82 * den)
      + (100 * j - 82 * den) * (100 * j - 82 * den)

\* np.hypot(X - 0.82, Z - 0.82) < t
HypotLt(i, j, den, t) == den > 0 /\ HypotSq(i, j, den) < t * t * den * den

\* np.hypot(X - 0.82, Z - 0.82) >= t
HypotGe(i, j, den, t) == den > 0 /\ HypotSq(i, j, den) >= t * t * den * den

\* One assignment labels[mask] = cls of a cascade, at one cell: when is the
\* mask there; over, unless AnyLabel, is the class the mask requires the
\* cell to hold now (labels == over).
AnyLabel == -1

Rule(when, cls) == [when |-> when, over |-> AnyLabel, cls |-> cls]

RuleOver(when, over, cls) == [when |-> when, over |-> over, cls |-> cls]

\* The assignments run in program order on the live label.
RECURSIVE Cascade_first(_, _, _)
Cascade_first(label, rules, k) ==
    IF k > Len(rules) THEN label
    ELSE LET q == rules[k]
             hit == q.when /\ (q.over = AnyLabel \/ q.over = label)
         IN  IF hit THEN q.cls ELSE Cascade_first(label, rules, k + 1)

RECURSIVE Cascade(_, _, _)
Cascade(label, rules, k) ==
    IF k > Len(rules) THEN label
    ELSE LET q == rules[k]
             hit == q.when /\ (q.over = AnyLabel \/ q.over = label)
         IN  Cascade(IF hit THEN q.cls ELSE label, rules, k + 1)

\* gen_desert, lines 66-71, at a cell with the given wave and r.
DesertCell_default13(wave, r) ==
    Cascade(13, << Rule(Gt(wave, 450), 0),
                   Rule(Gt(wave, 300) /\ r > 780, 1),
                   Rule(Gt(wave, 220) /\ r > 900, 2),
                   Rule(Lt(wave, 0), 4),
                   Rule(r > 960, 9) >>, 1)

DesertCell(wave, r) ==
    Cascade(3, << Rule(Gt(wave, 450), 0),
                  Rule(Gt(wave, 300) /\ r > 780, 1),
                  Rule(Gt(wave, 220) /\ r > 900, 2),
                  Rule(Lt(wave, 0), 4),
                  Rule(r > 960, 9) >>, 1)

\* gen_rocky, lines 85-91, at the cell of column i.
RockyCell(wave, r, i, den) ==
    Cascade(0, << Rule(Gt(wave, 380), 9),
                  Rule(Lt(wave, -200), 8),
                  Rule(AbsHalfLt(i, den, 12), 6),
                  Rule(AbsHalfLt(i, den, 7) /\ r < 550, 3),
                  Rule(AbsHalfLt(i, den, 12) /\ r > 860, 2),
                  Rule(AbsHalfGt(i, den, 35) /\ r > 880, 1) >>, 1)

\* gen_mixed, lines 104-134, at the cell of column i and row j.
MixedCell_clobber(wave, r, i, j, den) ==
    LET gravel_path == AbsHalfLt(i, den, 6) \/ AbsHalfLt(j, den, 6)
        rock_zone   == CoordGt(i, den, 65) /\ CoordLt(j, den, 35)
        veg_zone    == CoordLt(i, den, 35) /\ CoordLt(j, den, 35)
    IN  Cascade(4, << Rule(HypotLt(i, j, den, 18), 7),
                      Rule(HypotGe(i, j, den, 18) /\ HypotLt(i, j, den, 27), 6),
                      Rule(rock_zone /\ Gt(wave, 200), 0),
                      Rule(rock_zone /\ Gt(wave, 350), 9),
                      Rule(veg_zone, 8),
                      Rule(veg_zone /\ r > 700, 1),
                      Rule(AbsDiffLt(i, j, den, 4) /\ r > 800, 2),
                      Rule(AbsHalfLt(i, den, 10) /\ AbsHalfLt(j, den, 10) /\ r > 650, 5),
                      Rule(r > 970, 9),
                      Rule(gravel_path, 6),
                      Rule(Gt(wave, 150) /\ r > 600, 3) >>, 1)

MixedCell(wave, r, i, j, den) ==
    LET gravel_path == AbsHalfLt(i, den, 6) \/ AbsHalfLt(j, den, 6)
        rock_zone   == CoordGt(i, den, 65) /\ CoordLt(j, den, 35)
        veg_zone    == CoordLt(i, den, 35) /\ CoordLt(j, den, 35)
    IN  Cascade(4, << Rule(HypotLt(i, j, den, 18), 7),
                      Rule(HypotGe(i, j, den, 18) /\ HypotLt(i, j, den, 27), 6),
                      Rule(rock_zone /\ Gt(wave, 200), 0),
                      Rule(rock_zone /\ Gt(wave, 350), 9),
                      Rule(veg_zone, 8),
                      Rule(veg_zone /\ r > 700, 1),
                      Rule(AbsDiffLt(i, j, den, 4) /\ r > 800, 2),
                      Rule(AbsHalfLt(i, den, 10) /\ AbsHalfLt(j, den, 10) /\ r > 650, 5),
                      Rule(r > 970, 9),
                      RuleOver(gravel_path, 4, 6),
                      RuleOver(Gt(wave, 150) /\ r > 600, 4, 3) >>, 1)

\* A size x size label grid whose cell at row j, column i (0-based) is
\* F[i, j].  np.full raises ValueError on a negative dimension; size 0
\* gives the empty array of shape (0, 0); neither is checked by the
\* generators themselves.
LabelGrid(size, F) ==
    IF size < 0
    THEN [raised |-> "ValueError", value |-> np_full(0, 0, 0)]
    ELSE [raised |-> NoError,
          value |-> [h |-> size, w |-> size,
                     a |-> [r \in 1..size |-> [c \in 1..size |-> F[c - 1, r - 1]]]]]

gen_desert(size, seed) ==
    LET F == [i \in 0..(size - 1), j \in 0..(size - 1) |->
            DesertCell(_sine_noise(i, j, size - 1, DesertBands, seed),
              _pseudo_rand(i + seed, j + seed * 2, seed))]
    IN  LabelGrid(size, F)

gen_rocky(size, seed) ==
    LET F == [i \in 0..(size - 1), j \in 0..(size - 1) |->
            RockyCell(_sine_noise(i, j, size - 1, RockyBands, seed),
                             _pseudo_rand(i * 2 + seed, j * 3 + seed, seed),
                             i, size - 1)]
    IN  LabelGrid(size, F)

gen_mixed(size, seed) ==
    LET F == [i \in 0..(size - 1), j \in 0..(size - 1) |->
            MixedCell(_sine_noise(i, j, size - 1, MixedBands, seed),
                             _pseudo_rand(i + seed * 3, j + seed, seed),
                             i, j, size - 1)]
    IN  LabelGrid(size, F)

\* gen_random: the style is seed % 3.
gen_random_mod2(size, seed) ==
    LET style == seed % 2
    IN  IF style = 0 THEN gen_desert(size, seed)
        ELSE IF style = 1 THEN gen_rocky(size, seed)
        ELSE gen_mixed(size, seed)

gen_random(size, seed) ==
    LET style == seed % 3
    IN  IF style = 0 THEN gen_desert(size, seed)
        ELSE IF style = 1 THEN gen_rocky(size, seed)
        ELSE gen_mixed(size, seed)

\* ------------------------------------------------------------ augmentation

(***************************************************************************)
(* A PIL image is an array of <<R, G, B>> pixels (PIL's size is (w, h)); a  *)
(* label is an array of class ids.  The generator handed to augment_image   *)
(* and render_terrain is given as the values it will yield, in draw order.  *)
(***************************************************************************)

\* np.fliplr / Image.transpose(FLIP_LEFT_RIGHT)
FlipLR(g) ==
    [h |-> g.h, w |-> g.w,
     a |-> [r \in 1..g.h |-> [c \in 1..g.w |-> g.a[r][g.w + 1 - c]]]]

\* np.flipud / Image.transpose(FLIP_TOP_BOTTOM)
FlipUD(g) ==
    [h |-> g.h, w |-> g.w,
     a |-> [r \in 1..g.h |-> [c \in 1..g.w |-> g.a[g.h + 1 - r][c]]]]

\* One quarter turn counter-clockwise: out[i][j] = m[j][w-1-i] (0-based);
\* the result has the shape (w, h).
QuarterTurn(g) ==
    [h |-> g.w, w |-> g.h,
     a |-> [r \in 1..g.w |-> [c \in 1..g.h |-> g.a[c][g.w + 1 - r]]]]

\* np.rot90(m, k)
RECURSIVE np_rot90(_, _)
np_rot90(m, k) == IF k % 4 = 0 THEN m ELSE np_rot90(QuarterTurn(m), (k % 4) - 1)

\* Image.rotate(k * 90) with expand left False.  180 degrees, and 90 or 270
\* on a square image, are exact transposes.  90 or 270 on an image that is
\* not square is the affine transform with nearest resampling: the output
\* keeps the size (w, h), each output pixel centre is mapped back about the
\* image centre, and a pixel whose source falls outside is filled with 0.
\* Coordinates are doubled to keep the halves exact; x is the column.
Black == <<0, 0, 0>>

PIL_rotate(img, k) ==
    IF k % 4 = 0 THEN img
    ELSE IF k % 4 = 2 THEN np_rot90(img, 2)
    ELSE IF img.w = img.h THEN np_rot90(img, k)
    ELSE [h |-> img.h, w |-> img.w,
          a |-> [r \in 1..img.h |-> [c \in 1..img.w |->
             LET x  == c - 1
                 y  == r - 1
                 x2 == IF k % 4 = 1 THEN (img.h + img.w) - (2 * y + 1)
                                    ELSE (2 * y + 1) + (img.w - img.h)
                 y2 == IF k % 4 = 1 THEN (2 * x + 1) + (img.h - img.w)
                                    ELSE (img.w + img.h) - (2 * x + 1)
             IN  IF x2 >= 0 /\ x2 < 2 * img.w /\ y2 >= 0 /\ y2 < 2 * img.h
                 THEN img.a[(y2 \div 2) + 1][(x2 \div 2) + 1]
                 ELSE Black]]]

\* Line 166 on one channel: clip(v * factor, 0, 255).astype(uint8), factor
\* in hundredths.
JitterChannel(v, factor) == AsUint8(np_clip(Trunc(v * factor, 100), 0, 255))

ColorJitter(img, factor) ==
    [h |-> img.h, w |-> img.w,
     a |-> [r \in 1..img.h |-> [c \in 1..img.w |->
              [ch \in 1..3 |-> JitterChannel(img.a[r][c][ch], factor)]]]]

\* augment_image.  draws = <<u1, u2, k, factor>>: the two rng.random() in
\* thousandths, rng.integers(0, 4), rng.uniform(0.85, 1.15) in hundredths.
\* Nothing compares the shape of img with that of label.
augment_image(img, label, draws) ==
    LET hflip == draws[1] > 500
        vflip == draws[2] > 500
        k     == draws[3]
        img1  == IF hflip THEN FlipLR(img) ELSE img
        lab1  == IF hflip THEN FlipLR(label) ELSE label
        img2  == IF vflip THEN FlipUD(img1) ELSE img1
        lab2  == IF vflip THEN FlipUD(lab1) ELSE lab1
        img3  == IF k > 0 THEN PIL_rotate(img2, k) ELSE img2
        lab3  == IF k > 0 THEN np_rot90(lab2, k) ELSE lab2
    IN  [raised |-> NoError,
         value |-> [img |-> ColorJitter(img3, draws[4]), label |-> lab3]]

\* ---------------------------------------------------------------- renderer

\* ID2RGB
ID2RGB(cid) == TERRAIN_CLASSES[cid + 1].rgb

\* The n-th value (n >= 1) of the stream of jitter values rng.normal yields.
StreamAt(stream, n) == stream[((n - 1) % Len(stream)) + 1]

\* The number of cells of labels, in row-major order before (r, c), whose
\* class is cid; and the number of cells of a class below cid that the
\* registry lists.
RankInClass(labels, r, c, cid) ==
    Cardinality({q \in Cells(labels) :
                   /\ labels.a[q[1]][q[2]] = cid
                   /\ (q[1] < r \/ (q[1] = r /\ q[2] < c))})

CellsBelow(labels, cid) ==
    Cardinality({q \in Cells(labels) :
                   labels.a[q[1]][q[2]] \in (0..(cid - 1)) \cap (0..(NUM_CLASSES - 1))})

\* The rgb array of render_terrain after the loop of lines 182-190: zeros,
\* then for each registry class present, in id order, its colour plus the
\* next mask.sum() * 3 draws, clipped to the byte range.  A cell whose id
\* the loop does not enumerate stays <<0, 0, 0>>.
RenderRgb(labels, stream) ==
    [h |-> labels.h, w |-> labels.w,
     a |-> [r \in 1..labels.h |-> [c \in 1..labels.w |->
        LET cid == labels.a[r][c]
        IN  IF cid \notin 0..(NUM_CLASSES - 1) THEN Black
            ELSE LET first == 3 * (CellsBelow(labels, cid) + RankInClass(labels, r, c, cid))
                 IN  [ch \in 1..3 |->
                        AsUint8(np_clip(ID2RGB(cid)[ch] + StreamAt(stream, first + ch),
                                        0, 255))]]]]

\* The number of values render_terrain draws from rng.
RenderDraws(labels) ==
    3 * Cardinality({q \in Cells(labels) : labels.a[q[1]][q[2]] \in 0..(NUM_CLASSES - 1)})

\* render_terrain: the outcomes it can have.  rgb is the array of line 190;
\* the image returned is PIL's Gaussian blur of it (radius 0.8), resized
\* bilinearly to (size, size) when size differs from the grid's height: of
\* that image the model keeps the size.  The function checks neither the
\* grid nor size; on a grid without cells or a size of 0 what happens is
\* Pillow's: a ValueError of its own or an image without pixels, by version.
render_terrain(labels, size, stream) ==
    LET rgb == RenderRgb(labels, stream)
        oh  == IF size # labels.h THEN size ELSE labels.h
        ow  == IF size # labels.h THEN size ELSE labels.w
        img == [raised |-> NoError, rgb |-> rgb, value |-> [h |-> oh, w |-> ow]]
    IN  IF labels.h = 0 \/ labels.w = 0 \/ oh = 0
        THEN {img, [raised |-> "ValueError", rgb |-> rgb, value |-> [h |-> 0, w |-> 0]]}
        ELSE {img}

\* ------------------------------------------------------------- the callers

\* The outcome of a call that has not run yet.
Pending == [raised |-> "pending"]

NoPrev == [set |-> FALSE, fn |-> "none", args |-> <<>>, ret |-> Pending]

\* No loop is in progress.
NoRun == [active |-> FALSE]

Sizes == -1..MaxSize

Seeds == 0..MaxSeed

GenFns == {"gen_desert", "gen_rocky", "gen_mixed", "gen_random",
           "_sine_noise", "_pseudo_rand"}

GenArgs == [size : Sizes, seed : Seeds]

\* The generator generate_dataset creates at line 222 (seed 42) and hands to
\* render_terrain and augment_image.
DatasetRng == default_rng(42)

\* The whole field _sine_noise returns over the meshgrid of a size x size
\* grid (the desert bands), and the field _pseudo_rand returns over I, J.
SineField(size, seed) ==
    LET F == [i \in 0..(size - 1), j \in 0..(size - 1) |->
            _sine_noise(i, j, size - 1, DesertBands, seed)]
    IN  LabelGrid(Max(size, 0), F)

RandField(size, seed) ==
    LET F == [i \in 0..(size - 1), j \in 0..(size - 1) |->
            _pseudo_rand(i, j, seed)]
    IN  LabelGrid(Max(size, 0), F)

\* The caller is about to run f.
Calling(f) == pc = "call" /\ fn = f

\* f runs to its end with outcome r; it touches nothing of the caller's.
Returns(r) ==
    /\ ret' = r
    /\ pc' = "done"
    /\ UNCHANGED <<fn, args, rng, prev, run>>

\* f runs to its end with outcome r, having drawn n values from the caller's
\* generator.
ReturnsDrawing(r, n) ==
    /\ ret' = r
    /\ pc' = "done"
    /\ rng' = RngAdvance(rng, n)
    /\ UNCHANGED <<fn, args, prev, run>>

Call_gen_desert == Calling("gen_desert") /\ Returns(gen_desert(args.size, args.seed))

Call_gen_rocky == Calling("gen_rocky") /\ Returns(gen_rocky(args.size, args.seed))

Call_gen_mixed == Calling("gen_mixed") /\ Returns(gen_mixed(args.size, args.seed))

Call_gen_random == Calling("gen_random") /\ Returns(gen_random(args.size, args.seed))

Call_sine_noise == Calling("_sine_noise") /\ Returns(SineField(args.size, args.seed))

Call_pseudo_rand == Calling("_pseudo_rand") /\ Returns(RandField(args.size, args.seed))

CallGen ==
    \/ Call_gen_desert
    \/ Call_gen_rocky
    \/ Call_gen_mixed
    \/ Call_gen_random
    \/ Call_sine_noise
    \/ Call_pseudo_rand

\* The class generators.
ClassGens == {"gen_desert", "gen_rocky", "gen_mixed", "gen_random"}

\* render_terrain: every small grid over MaskIds and the grid without cells,
\* output sizes 0..2, two jitter streams.
JitterStreams == {<<0>>, <<-8, 5, 300>>}

RenderArgs ==
    [labels : Grids(MaskIds, MaxCells) \cup {np_full(0, 0, 0)},
     size   : 0..2,
     stream : JitterStreams]

Call_render_terrain ==
    /\ Calling("render_terrain")
    /\ \E out \in render_terrain(args.labels, args.size, args.stream) :
          ReturnsDrawing(out, RenderDraws(args.labels))

\* Single calls of the generators, for every size and seed, and of the
\* renderer.
InitGen ==
    /\ pc = "call"
    /\ \/ fn \in GenFns /\ args \in GenArgs
       \/ fn = "render_terrain" /\ args \in RenderArgs
    /\ ret = Pending
    /\ rng = DatasetRng
    /\ prev = NoPrev
    /\ run = NoRun

NextGen == CallGen \/ Call_render_terrain

SpecGen == InitGen /\ [][NextGen]_vars

\* The cost pipeline: every small mask over MaskIds with each registry and
\* kernel size; every small cost grid over CostSamples (0, 0.296875, 0.3,
\* 0.45, 0.5 and 1).
CostSamples == {0, 7600, 7680, 11520, 12800, 25600}

CostMapArgs ==
    [seg_mask : Grids(MaskIds, MaxCells), registry : RegistryNames,
     blur_kernel : BlurKernels]

\* Uniform class grids: every side up to MaxField and the 32 x 32 field, each
\* registry class, under the two registries of the repository.
ScenarioShape == <<32, 32>>

UniformMasks ==
    {np_full(n, n, cid) : n \in 1..MaxField, cid \in RegistryIds(TERRAIN_CLASSES)}
        \cup {np_full(ScenarioShape[1], ScenarioShape[2], 9)}

UniformArgs ==
    [seg_mask : UniformMasks, registry : {"segmentation", "dataset"},
     blur_kernel : {1, 3, 5}]

HeatmapArgs == [cost_grid : Grids(CostSamples, MaxCells)]

\* resolution in hundredths of a metre: the default 0.05.
ExportArgs == [cost_grid : Grids(CostSamples, MaxCells), resolution : {5}]

Call_generate_cost_map ==
    /\ Calling("generate_cost_map")
    /\ Returns(generate_cost_map(args.seg_mask, Registry(args.registry), args.blur_kernel))

Call_create_cost_heatmap ==
    /\ Calling("create_cost_heatmap")
    /\ Returns(create_cost_heatmap(args.cost_grid))

Call_export_cost_grid_ros ==
    /\ Calling("export_cost_grid_ros")
    /\ Returns(export_cost_grid_ros(args.cost_grid, args.resolution))

InitCost ==
    /\ pc = "call"
    /\ \/ fn = "generate_cost_map" /\ args \in CostMapArgs \cup UniformArgs
       \/ fn = "create_cost_heatmap" /\ args \in HeatmapArgs
       \/ fn = "export_cost_grid_ros" /\ args \in ExportArgs
       \/ fn = "render_terrain" /\ args \in RenderArgs
    /\ ret = Pending
    /\ rng = DatasetRng
    /\ prev = NoPrev
    /\ run = NoRun

NextCost ==
    \/ Call_generate_cost_map
    \/ Call_create_cost_heatmap
    \/ Call_export_cost_grid_ros
    \/ Call_render_terrain

SpecCost == InitCost /\ [][NextCost]_vars

\* augment_image: every small label over Sand and Obstacle; the image is
\* the label painted in the registry colours, or the painting of a grid of
\* another shape; every outcome of the two coin draws and of k, and the two
\* ends of the colour factor.
Paint(label) ==
    [h |-> label.h, w |-> label.w,
     a |-> [r \in 1..label.h |-> [c \in 1..label.w |-> ID2RGB(label.a[r][c])]]]

AugLabels == Grids({3, 9}, MaxCells)

AugDraws == {500, 750} \X {500, 750} \X (0..3) \X {85, 115}

AugArgs ==
    UNION {[img : {Paint(l)} \cup {Paint(np_full(q[1], q[2], 3)) : q \in Shapes(MaxCells)},
            label : {l}, draws : AugDraws] : l \in AugLabels}

SameShape(x, y) == x.h = y.h /\ x.w = y.w

Call_augment_image ==
    /\ Calling("augment_image")
    /\ ReturnsDrawing(augment_image(args.img, args.label, args.draws), 4)

InitAug ==
    /\ pc = "call"
    /\ fn = "augment_image"
    /\ args \in AugArgs
    /\ ret = Pending
    /\ rng = DatasetRng
    /\ prev = NoPrev
    /\ run = NoRun

SpecAug == InitAug /\ [][Call_augment_image]_vars

\* Grids that have cells: size 1 and up.
DetArgs == [size : 1..MaxSize, seed : Seeds]

\* The caller keeps the call it has just made, to compare a later one with.
Remember ==
    /\ pc = "done"
    /\ rng = DatasetRng
    /\ prev' = [set |-> TRUE, fn |-> fn, args |-> args, ret |-> ret]
    /\ UNCHANGED <<pc, fn, args, ret, rng, run>>

\* The caller makes another call.
NextCall ==
    /\ pc = "done"
    /\ pc' = "call"
    /\ fn' \in GenFns
    /\ args' \in DetArgs
    /\ ret' = Pending
    /\ UNCHANGED <<rng, prev, run>>

\* Between two calls the caller's generator is drawn from (generate_dataset
\* line 234, render_terrain line 188, augment_image lines 152-165).
DrawShared ==
    /\ pc = "done"
    /\ rng' = RngStep(rng)
    /\ UNCHANGED <<pc, fn, args, ret, prev, run>>

InitDet ==
    /\ pc = "call"
    /\ fn \in GenFns
    /\ args \in DetArgs
    /\ ret = Pending
    /\ rng = DatasetRng
    /\ prev = NoPrev
    /\ run = NoRun

NextDet == CallGen \/ Remember \/ NextCall \/ DrawShared

\* Sequences of calls of the generators, in any order, the caller's own
\* generator being drawn from in between.
SpecDet == InitDet /\ [][NextDet]_vars

\* ------------------------------------------------------- main.py: /terrain

\* H_BASE and H_VAR of get_terrain (lines 188-189), in hundredths, indexed by
\* class id + 1.
H_BASE == <<55, 35, 22, 8, 18, 2, 12, -25, 28, 80>>

H_VAR == <<50, 20, 12, 8, 15, 4, 6, 5, 12, 40>>

\* One cell of height_map (lines 192-193): H_BASE[cid] + H_VAR[cid] * u, u in
\* thousandths, the height in units of 1/100000.
HeightOf_centred(cid, u) == H_BASE[cid + 1] * 1000 + H_VAR[cid + 1] * (u - 500)

HeightOf(cid, u) == H_BASE[cid + 1] * 1000 + H_VAR[cid + 1] * u

\* round(x, 3) of line 209 on a height in units of 1/100000: to the nearest
\* thousandth, a tie going to the even one.
Round3(n) ==
    LET q == n \div 100
        m == n % 100
    IN  IF 2 * m > 100 THEN q + 1
        ELSE IF 2 * m < 100 THEN q
        ELSE IF q % 2 = 0 THEN q ELSE q + 1

\* cls_map of line 196 and its lookup of line 203: the entry of
\* segmentation.py's registry for cid, Sand's when there is none.
cls_map_get(cid) ==
    IF cid \in RegistryIds(SEG_TERRAIN_CLASSES)
    THEN SEG_TERRAIN_CLASSES[CHOOSE i \in 1..Len(SEG_TERRAIN_CLASSES) :
                                SEG_TERRAIN_CLASSES[i].id = cid]
    ELSE SEG_TERRAIN_CLASSES[4]

\* get_terrain(preset, grid, seed); noise is the stream of values
\* rng.random((grid, grid)) yields, in thousandths, in row-major order.
\* A failure of the generator (a negative grid) is not caught: the framework
\* answers 500.
get_terrain(preset, grid, seed, noise) ==
    LET labels == CASE preset = "desert" -> gen_desert(grid, seed)
                    [] preset = "rocky"  -> gen_rocky(grid, seed)
                    [] OTHER             -> gen_mixed(grid, seed)
    IN  IF labels.raised # NoError
        THEN [raised |-> labels.raised, status |-> 500, labels |-> labels.value,
              height_map |-> np_full(0, 0, 0), noise |-> np_full(0, 0, 0),
              cells |-> np_full(0, 0, 0)]
        ELSE LET u(j, i) == StreamAt(noise, (j - 1) * grid + i)
                 cid(j, i) == labels.value.a[j][i]
             IN  [raised |-> NoError, status |-> 200, labels |-> labels.value,
                  noise |-> [h |-> grid, w |-> grid,
                             a |-> [j \in 1..grid |-> [i \in 1..grid |-> u(j, i)]]],
                  height_map |->
                     [h |-> grid, w |-> grid,
                      a |-> [j \in 1..grid |-> [i \in 1..grid |->
                               HeightOf(cid(j, i), u(j, i))]]],
                  cells |->
                     [h |-> grid, w |-> grid,
                      a |-> [j \in 1..grid |-> [i \in 1..grid |->
                               LET tc == cls_map_get(cid(j, i))
                               IN  [classId     |-> cid(j, i),
                                    className   |-> tc.name,
                                    cost        |-> tc.cost,
                                    traversable |-> tc.traversable,
                                    height      |-> Round3(HeightOf(cid(j, i), u(j, i))),
                                    color       |-> tc.color]]]]]

\* The presets a client asks for, one of them unknown to the service.
Presets == {"desert", "rocky", "mixed", "forest"}

\* Streams of rng.random() values in [0, 1), in thousandths.
NoiseStreams == {<<0>>, <<998>>, <<500, 0, 998, 200>>}

TerrainArgs == [preset : Presets, grid : Sizes, seed : Seeds, noise : NoiseStreams]

Call_get_terrain ==
    /\ Calling("get_terrain")
    /\ Returns(get_terrain(args.preset, args.grid, args.seed, args.noise))

InitTerrain ==
    /\ pc = "call"
    /\ fn = "get_terrain"
    /\ args \in TerrainArgs
    /\ ret = Pending
    /\ rng = DatasetRng
    /\ prev = NoPrev
    /\ run = NoRun

\* Single requests to /terrain.
SpecTerrain == InitTerrain /\ [][Call_get_terrain]_vars

\* ------------------------------------------------- dataset.py: the dataset

\* What the caller's generator yields, read off its state: rng.integers(0,
\* 2**31) (line 234), rng.random() in thousandths (lines 152, 156),
\* rng.integers(0, 4) (line 160) and rng.uniform(0.85, 1.15) in hundredths
\* (line 165).
SeedDraw(state) == state

RandomDraw(state) == (state * 1000) \div RngModulus

QuarterDraw(state) == state % 4

FactorDraw(state) == 85 + ((30 * state) \div RngModulus)

\* The four draws of one augment_image call made on generator state s.
AugmentDraws(s) ==
    << RandomDraw(RngNth(s, 1)), RandomDraw(RngNth(s, 2)),
       QuarterDraw(RngNth(s, 3)), FactorDraw(RngNth(s, 4)) >>

\* Image.fromarray(labels, "L").resize((size, size), Image.NEAREST), lines
\* 239-242: the output cell (r, c) is the source cell under its centre.
resize_bilinear(labels, size) ==
    [h |-> size, w |-> size,
     a |-> [r \in 1..size |-> [c \in 1..size |->
              LET r0 == (((2 * r - 1) * labels.h) \div (2 * size)) + 1
                  c0 == (((2 * c - 1) * labels.w) \div (2 * size)) + 1
              IN  (labels.a[r0][c0] + labels.a[Min(r0 + 1, labels.h)][Min(c0 + 1, labels.w)])
                      \div 2]]]

resize_nearest(labels, size) ==
    [h |-> size, w |-> size,
     a |-> [r \in 1..size |-> [c \in 1..size |->
              labels.a[(((2 * r - 1) * labels.h) \div (2 * size)) + 1]
                      [(((2 * c - 1) * labels.w) \div (2 * size)) + 1]]]]

\* n_val of line 224: max(1, int(n * val_split)), val_split in hundredths.
NVal(n, val_split) == Max(1, Trunc(n * val_split, 100))

\* Lines 222-231: the generator, the split sizes, idx = 0.  The directories
\* are made; no file is written yet.
DS_Start ==
    /\ Calling("generate_dataset")
    /\ pc' = "loop"
    /\ rng' = default_rng(args.seed)
    /\ run' = [active  |-> TRUE,
               splits  |-> [train |-> args.n - NVal(args.n, args.val_split),
                            val   |-> NVal(args.n, args.val_split)],
               split   |-> "train",
               k       |-> 0,
               idx     |-> 0,
               files   |-> {},
               samples |-> <<>>]
    /\ UNCHANGED <<fn, args, ret, prev>>

\* One pass of the loop body, lines 234-252: the terrain seed is drawn, the
\* class grid generated, rendered and resized, the pair augmented (train
\* split, augment on) and both files written under the stem idx.
DS_Sample ==
    /\ pc = "loop"
    /\ fn = "generate_dataset"
    /\ run.k < run.splits[run.split]
    /\ LET s      == SeedDraw(RngNth(rng, 1))
           labels == gen_random(args.grid, s)
           rng1   == RngAdvance(rng, 1 + RenderDraws(labels.value))
           sized  == IF args.img_size # args.grid
                     THEN resize_nearest(labels.value, args.img_size)
                     ELSE labels.value
           aug    == args.augment /\ run.split = "train"
           pair   == augment_image(Paint(sized), sized, AugmentDraws(rng1))
           label  == IF aug THEN pair.value.label ELSE sized
       IN  \E img \in render_terrain(labels.value, args.img_size, <<0>>) :
              IF labels.raised # NoError \/ img.raised # NoError
              THEN /\ pc' = "done"
                   /\ ret' = [raised |-> IF labels.raised # NoError THEN labels.raised
                                         ELSE img.raised]
                   /\ UNCHANGED <<rng, run>>
              ELSE /\ pc' = "loop"
                   /\ rng' = IF aug THEN RngAdvance(rng1, 4) ELSE rng1
                   /\ run' = [run EXCEPT
                                !.files = @ \cup {<<"images", run.split, run.idx>>,
                                                  <<"annotations", run.split, run.idx>>},
                                !.samples = Append(@, [idx |-> run.idx, split |-> run.split,
                                                       s |-> s, labels |-> labels.value,
                                                       resized |-> sized, label |-> label]),
                                !.idx = @ + 1,
                                !.k = @ + 1]
                   /\ UNCHANGED ret
    /\ UNCHANGED <<fn, args, prev>>

\* Line 232: the train split is done, the val split starts.
DS_NextSplit ==
    /\ pc = "loop"
    /\ fn = "generate_dataset"
    /\ run.split = "train"
    /\ run.k >= run.splits.train
    /\ run' = [run EXCEPT !.split = "val", !.k = 0]
    /\ UNCHANGED <<pc, fn, args, ret, rng, prev>>

\* Lines 257-263: class_info.json is written and the directory returned.
DS_Finish ==
    /\ pc = "loop"
    /\ fn = "generate_dataset"
    /\ run.split = "val"
    /\ run.k >= run.splits.val
    /\ run' = [run EXCEPT !.files = @ \cup {<<"class_info.json", "", 0>>}]
    /\ ret' = [raised |-> NoError, value |-> "out"]
    /\ pc' = "done"
    /\ UNCHANGED <<fn, args, rng, prev>>

\* generate_dataset is asked for 0..MaxN samples, with the default split 0.15
\* and a half split, grids 1..MaxSize rendered at 2 or 4 pixels.
DatasetArgs ==
    [n : 0..MaxN, val_split : {15, 50}, grid : 1..MaxSize, img_size : {2, 4},
     seed : Seeds, augment : BOOLEAN]

InitDataset ==
    /\ pc = "call"
    /\ fn = "generate_dataset"
    /\ args \in DatasetArgs
    /\ ret = Pending
    /\ rng = DatasetRng
    /\ prev = NoPrev
    /\ run = NoRun

NextDataset == DS_Start \/ DS_Sample \/ DS_NextSplit \/ DS_Finish

SpecDataset == InitDataset /\ [][NextDataset]_vars

\* ------------------------------------------ dataset.py: the dataset, twice

\* The caller runs generate_dataset a second time with the same arguments but
\* for the augment flag (line 208), which is inverted; the samples the first
\* run wrote are kept for comparison.  The second run builds its own
\* generator from the seed (line 222).
DS_Again ==
    /\ pc = "done"
    /\ fn = "generate_dataset"
    /\ ~prev.set
    /\ ret.raised = NoError
    /\ prev' = [set |-> TRUE, fn |-> fn, args |-> args,
                ret |-> [raised |-> NoError, value |-> run.samples]]
    /\ pc' = "call"
    /\ args' = [args EXCEPT !.augment = ~@]
    /\ ret' = Pending
    /\ run' = NoRun
    /\ UNCHANGED <<fn, rng>>

NextTwice == DS_Start \/ DS_Sample \/ DS_NextSplit \/ DS_Finish \/ DS_Again

\* Two runs of generate_dataset that differ in the augment flag only.
SpecTwice == InitDataset /\ [][NextTwice]_vars

\* ------------------------------------------- dataset.py: one cell's rules

\* The wave and noise values a cell can have, on both sides of every
\* threshold of the three styles (thousandths), and the coordinates i / den
\* of grids of size 1 (den 0: nan), 2 and 11.
WaveSamples == {-300, -100, 100, 160, 210, 250, 310, 360, 390, 460}

RandSamples == {0, 560, 610, 660, 710, 790, 810, 870, 890, 910, 965, 975}

Dens == {0, 1, 10}

\* The cells of the three styles: wave is nan exactly on the grid of size 1.
CellArgs ==
    {c \in [wave : WaveSamples \cup {NaN}, r : RandSamples, i : 0..10, j : 0..10,
            den : Dens] :
        /\ c.i <= c.den /\ c.j <= c.den
        /\ IsNaN(c.wave) <=> c.den = 0}

\* The masked assignments of a generator, at one cell: numpy applies them
\* cell by cell, each cell seeing only its own wave, noise and coordinates.
Call_desert_cell ==
    /\ Calling("gen_desert.cell")
    /\ Returns([raised |-> NoError, value |-> DesertCell(args.wave, args.r)])

Call_rocky_cell ==
    /\ Calling("gen_rocky.cell")
    /\ Returns([raised |-> NoError,
                value |-> RockyCell(args.wave, args.r, args.i, args.den)])

Call_mixed_cell ==
    /\ Calling("gen_mixed.cell")
    /\ Returns([raised |-> NoError,
                value |-> MixedCell(args.wave, args.r, args.i, args.j, args.den)])

InitCascade ==
    /\ pc = "call"
    /\ \/ fn = "gen_desert.cell" /\ args \in {c \in CellArgs : c.i = 0 /\ c.j = 0}
       \/ fn = "gen_rocky.cell" /\ args \in {c \in CellArgs : c.j = 0}
       \/ fn = "gen_mixed.cell" /\ args \in CellArgs
    /\ ret = Pending
    /\ rng = DatasetRng
    /\ prev = NoPrev
    /\ run = NoRun

NextCascade == Call_desert_cell \/ Call_rocky_cell \/ Call_mixed_cell

SpecCascade == InitCascade /\ [][NextCascade]_vars

\* ------------------------------------------- main.py: /segment, /costmap

\* The content types of an upload.
ContentTypes == {"image/png", "text/plain"}

\* file.content_type.startswith("image/")
IsImage(content_type) == content_type = "image/png"

\* The body of the try block of segment_image (lines 93-129) and of
\* generate_costmap_only (lines 142-158), as the exception it raises or
\* NoError: the content-type test, the decoding of the upload,
\* model.predict and generate_cost_map with its default kernel.
HandlerBody(req) ==
    IF ~IsImage(req.content_type) THEN [raised |-> "HTTPException", code |-> 400]
    ELSE IF ~req.decodes THEN [raised |-> "UnidentifiedImageError", code |-> 0]
    ELSE IF ~req.predicts THEN [raised |-> "RuntimeError", code |-> 0]
    ELSE [raised |-> generate_cost_map(req.seg_mask, SEG_TERRAIN_CLASSES, 5).raised,
          code |-> 0]

\* The handler of lines 131-133 and 160-162 is "except Exception", and
\* HTTPException is an Exception: whatever the body raised, the 400 of the
\* content-type test included, is logged and raised again as
\* HTTPException(500, str(e)).
ExceptClause(body) == [raised |-> "HTTPException", status |-> 500, cause |-> body.raised]

\* The response of either handler to a request.
Handle(req) ==
    LET body == HandlerBody(req)
    IN  IF body.raised = NoError
        THEN [raised |-> NoError, status |-> 200, cause |-> NoError]
        ELSE ExceptClause(body)

segment_image(req) == Handle(req)

generate_costmap_only(req) == Handle(req)

\* Uploads: each content type, decodable or not, inference failing or
\* yielding any small mask.
Requests ==
    [content_type : ContentTypes, decodes : BOOLEAN, predicts : BOOLEAN,
     seg_mask : Grids(MaskIds, MaxCells)]

Call_segment_image ==
    /\ Calling("segment_image")
    /\ Returns(segment_image(args))

Call_generate_costmap_only ==
    /\ Calling("generate_costmap_only")
    /\ Returns(generate_costmap_only(args))

InitHttp ==
    /\ pc = "call"
    /\ fn \in {"segment_image", "generate_costmap_only"}
    /\ args \in Requests
    /\ ret = Pending
    /\ rng = DatasetRng
    /\ prev = NoPrev
    /\ run = NoRun

NextHttp == Call_segment_image \/ Call_generate_costmap_only

SpecHttp == InitHttp /\ [][NextHttp]_vars

\* ------------------------------------------------------- train.py: train

\* The validation mIoU an epoch can end with, in hundredths: compute_miou
\* returns a mean of ratios in [0, 1], 0.0 when no class is predicted right.
MiouSamples == {0, 40, 65, 100}

\* Lines 149-193: the model is loaded (the weights before epoch 1 are
\* version 0), best_miou = 0.0, all_metrics = [].  saved tells, for "best"
\* and "final", the epoch whose weights the checkpoint holds, NotSaved when
\* the directory was never written.
NotSaved == -1

TR_Start ==
    /\ Calling("train")
    /\ pc' = "loop"
    /\ run' = [active      |-> TRUE,
               epoch       |-> 0,
               best_miou   |-> 0,
               all_metrics |-> <<>>,
               saved       |-> [best |-> NotSaved, final |-> NotSaved],
               metrics     |-> NotSaved]
    /\ UNCHANGED <<fn, args, ret, rng, prev>>

\* Lines 195-253, one epoch: training, validation with some mIoU, the
\* metrics entry, and the checkpoint at "best" when miou > best_miou.
TR_Epoch ==
    /\ pc = "loop"
    /\ fn = "train"
    /\ run.epoch < args.epochs
    /\ \E miou \in MiouSamples :
          LET epoch == run.epoch + 1
              better == miou > run.best_miou
          IN  run' = [run EXCEPT
                        !.epoch = epoch,
                        !.all_metrics = Append(@, [epoch |-> epoch, val_miou |-> miou]),
                        !.best_miou = IF better THEN miou ELSE @,
                        !.saved = IF better THEN [@ EXCEPT !.best = epoch] ELSE @]
    /\ UNCHANGED <<pc, fn, args, ret, rng, prev>>

\* Lines 255-264: the final checkpoint, metrics.json, and the path of
\* "best" returned.
TR_Finish ==
    /\ pc = "loop"
    /\ fn = "train"
    /\ run.epoch >= args.epochs
    /\ run' = [run EXCEPT !.saved = [@ EXCEPT !.final = run.epoch],
                          !.metrics = [best_val_miou |-> run.best_miou,
                                       epochs |-> run.all_metrics]]
    /\ ret' = [raised |-> NoError, value |-> "best"]
    /\ pc' = "done"
    /\ UNCHANGED <<fn, args, rng, prev>>

InitTrain ==
    /\ pc = "call"
    /\ fn = "train"
    /\ args \in [epochs : 1..MaxEpochs]
    /\ ret = Pending
    /\ rng = DatasetRng
    /\ prev = NoPrev
    /\ run = NoRun

NextTrain == TR_Start \/ TR_Epoch \/ TR_Finish

SpecTrain == InitTrain /\ [][NextTrain]_vars

\* ------------------------------------------------------------- properties

Called(f) == pc = "done" /\ fn = f

CellOf(g, q) == g.a[q[1]][q[2]]

\* The cells of a mask whose id the registry does not list.
UnknownCells(mask, reg) == {q \in Cells(mask) : CellOf(mask, q) \notin RegistryIds(reg)}

C2_ZonedRamp ==
    Called("create_cost_heatmap")
        => /\ ret.raised = NoError
           /\ \A q \in Cells(args.cost_grid) :
                 LET v  == CellOf(args.cost_grid, q)
                     px == CellOf(ret.rgb, q)
                 IN  /\ px[3] = 0
                     /\ v = 0 => (px[1] = 0 /\ px[2] = 255)
                     /\ v = CostOne => px = <<255, 0, 0>>
                     /\ v = 11520 => (px[1] = 255 /\ px[2] \in 126..128)

\* C3: every cell of every class grid returned by gen_desert, gen_rocky,
\* gen_mixed and gen_random, for every size and seed, is a registry id.
C3_ClassIdClosure ==
    (pc = "done" /\ fn \in ClassGens /\ ret.raised = NoError)
        => \A q \in Cells(ret.value) : CellOf(ret.value, q) \in RegistryIds(TERRAIN_CLASSES)

\* A grid of the largest size that holds at least three classes.
C3_Witness ==
    /\ pc = "done"
    /\ fn \in ClassGens
    /\ ret.raised = NoError
    /\ args.size = MaxSize
    /\ Cardinality({CellOf(ret.value, q) : q \in Cells(ret.value)}) >= 3

\* C4: a generator or a noise helper called again with the same size and
\* seed, after any other calls and any draws from the caller's generator,
\* returns what it returned before.
C4_Deterministic ==
    (pc = "done" /\ prev.set /\ prev.fn = fn /\ prev.args = args) => prev.ret = ret

\* gen_mixed repeated on the largest grid after the caller's generator has
\* moved on.
C4_Witness ==
    /\ Called("gen_mixed")
    /\ prev.set
    /\ prev.fn = fn
    /\ prev.args = args
    /\ args.size = MaxSize
    /\ rng # DatasetRng

\* C5: gen_random returns gen_desert's grid for a seed 3k, gen_rocky's for
\* 3k+1 and gen_mixed's for 3k+2, for the same size and seed.
C5_StyleBySeedMod3 ==
    Called("gen_random")
        => \A k \in 0..MaxSeed :
             /\ args.seed = 3 * k     => ret = gen_desert(args.size, args.seed)
             /\ args.seed = 3 * k + 1 => ret = gen_rocky(args.size, args.seed)
             /\ args.seed = 3 * k + 2 => ret = gen_mixed(args.size, args.seed)

\* gen_random on seed 3 (k = 1), on a grid where the three styles differ.
C5_Witness ==
    /\ Called("gen_random")
    /\ args.seed = 3
    /\ args.size = MaxSize
    /\ ret # gen_rocky(args.size, args.seed)
    /\ ret # gen_mixed(args.size, args.seed)

\* The label augment_image must return: the flips and the rotation it drew,
\* applied in that order to the label it was given.
ExpectedLabel(label, draws) ==
    LET l1 == IF draws[1] > 500 THEN FlipLR(label) ELSE label
        l2 == IF draws[2] > 500 THEN FlipUD(l1) ELSE l1
    IN  np_rot90(l2, draws[3])

\* C6: augment_image, given an image that shows the label cell for cell,
\* returns the label with exactly the drawn flips and rotation applied, and
\* an image that (up to the colour factor) shows the returned label cell for
\* cell: the two went through the same geometric transform.
C6_AlignedAugment ==
    (Called("augment_image") /\ args.img = Paint(args.label))
        => /\ ret.raised = NoError
           /\ ret.value.label = ExpectedLabel(args.label, args.draws)
           /\ ret.value.img = ColorJitter(Paint(ret.value.label), args.draws[4])

\* C7: export_cost_grid_ros returns the row-major flattening with
\* data[r*W + c] = trunc(100 * cost[r][c]), every value in 0..100, the data
\* length W*H, width W and height H; a cell 0.5 exports as 50.
C7_ExportScaling ==
    Called("export_cost_grid_ros")
        => /\ ret.raised = NoError
           /\ Len(ret.value.data) = args.cost_grid.w * args.cost_grid.h
           /\ ret.value.info.width = args.cost_grid.w
           /\ ret.value.info.height = args.cost_grid.h
           /\ \A q \in Cells(args.cost_grid) :
                 LET d == ret.value.data[(q[1] - 1) * args.cost_grid.w + q[2]]
                     v == CellOf(args.cost_grid, q)
                 IN  /\ d = Trunc(100 * v, CostOne)
                     /\ d \in 0..100
                     /\ 2 * v = CostOne => d = 50

\* A grid with more than one row and more than one column whose (0, 1) and
\* (1, 0) cells differ, one of them 0.5.
C7_Witness ==
    /\ Called("export_cost_grid_ros")
    /\ args.cost_grid.h >= 2
    /\ args.cost_grid.w >= 2
    /\ 2 * args.cost_grid.a[1][2] = CostOne
    /\ args.cost_grid.a[2][1] = CostOne
    /\ ret.value.data[2] = 50

\* C8: a mask or label grid holding an id the registry does not list is
\* served without failure, and its unknown cells get one registry class's
\* cost in the raw cost grid and one registry class's colour (with the
\* renderer's jitter) in the rendered array.
C8_UnknownIdDefault ==
    /\ (Called("generate_cost_map") /\ KernelAccepted(args.blur_kernel)
          /\ UnknownCells(args.seg_mask, Registry(args.registry)) # {})
         => /\ ret.raised = NoError
            /\ \E d \in 1..Len(Registry(args.registry)) :
                  \A q \in UnknownCells(args.seg_mask, Registry(args.registry)) :
                     CellOf(ret.raw, q) = Registry(args.registry)[d].cost
    /\ (Called("render_terrain") /\ args.size > 0
          /\ UnknownCells(args.labels, TERRAIN_CLASSES) # {})
         => /\ ret.raised = NoError
            /\ \E d \in RegistryIds(TERRAIN_CLASSES) :
                  \A q \in UnknownCells(args.labels, TERRAIN_CLASSES) :
                     \A ch \in 1..3 :
                        \E n \in 1..Len(args.stream) :
                           CellOf(ret.rgb, q)[ch] =
                              AsUint8(np_clip(ID2RGB(d)[ch] + args.stream[n], 0, 255))

\* C9: a generator called with size 0, and the renderer given a grid
\* without cells or an output size of 0, raise; none returns a 0 x 0 result.
C9_RejectsZeroSize ==
    /\ (pc = "done" /\ fn \in ClassGens /\ args.size = 0) => ret.raised # NoError
    /\ (Called("render_terrain") /\ (args.labels.h = 0 \/ args.size = 0))
         => ret.raised # NoError

\* C10: augment_image given an image and a label of different shapes raises
\* and returns no pair.
C10_ShapeMismatchFails ==
    (Called("augment_image") /\ ~SameShape(args.img, args.label)) => ret.raised # NoError

\* C11: generate_cost_map given a blur kernel size that is even or not
\* positive rejects it: for every mask the call raises at the smoothing
\* step, before any cost grid is smoothed, and returns none.
C11_RejectsBadKernel ==
    (Called("generate_cost_map") /\ ~KernelAccepted(args.blur_kernel))
        => ret.raised = "cv2.error" /\ ret.stage = "blur"

\* The entry of dataset.py's registry for a class id.
ClassOf(cid) == TERRAIN_CLASSES[CHOOSE i \in 1..Len(TERRAIN_CLASSES) : TERRAIN_CLASSES[i].id = cid]

\* C12: both registries list 10 entries whose ids are 0..9, each once, and
\* an id means the same class in every stage: every cell the terrain
\* service serves carries the name, cost and traversable flag that the
\* registry of synthesis (dataset.py) gives the class id the generator put
\* there.
C12_OneRegistry ==
    /\ Len(TERRAIN_CLASSES) = 10 /\ Len(SEG_TERRAIN_CLASSES) = 10
    /\ \A i \in 1..10 : TERRAIN_CLASSES[i].id = i - 1 /\ SEG_TERRAIN_CLASSES[i].id = i - 1
    /\ (Called("get_terrain") /\ ret.raised = NoError)
         => \A q \in Cells(ret.cells) :
               LET cell == CellOf(ret.cells, q)
                   tc   == ClassOf(cell.classId)
               IN  /\ cell.className = tc.name
                   /\ cell.cost = tc.cost
                   /\ cell.traversable = tc.traversable

\* C15: every cell of the height map is base[classId] + variance[classId] * u
\* for the cell's noise value u, and so lies in [base, base + variance) for
\* u in [0, 1); a Rock cell (base 0.55, variance 0.50) is 0.55 high at u = 0,
\* and the formula gives 1.05 at u = 1.
C15_HeightLookup ==
    /\ HeightOf(0, 1000) = 105000
    /\ (Called("get_terrain") /\ ret.raised = NoError)
         => \A q \in Cells(ret.height_map) :
               LET cid == CellOf(ret.labels, q)
                   u   == CellOf(ret.noise, q)
                   h   == CellOf(ret.height_map, q)
               IN  /\ h - 1000 * H_BASE[cid + 1] = H_VAR[cid + 1] * u
                   /\ h >= 1000 * H_BASE[cid + 1]
                   /\ h < 1000 * (H_BASE[cid + 1] + H_VAR[cid + 1])
                   /\ (cid = 0 /\ u = 0) => h = 55000

\* A served terrain with a Rock cell at noise 0, 0.55 high, and a cell of
\* another class at noise 0.998.
C15_Witness ==
    /\ Called("get_terrain")
    /\ ret.raised = NoError
    /\ \E q \in Cells(ret.height_map) :
          /\ CellOf(ret.labels, q) = 0
          /\ CellOf(ret.noise, q) = 0
          /\ CellOf(ret.height_map, q) = 55000
    /\ \E q \in Cells(ret.height_map) :
          CellOf(ret.labels, q) # 0 /\ CellOf(ret.noise, q) = 998

\* The cells of a grid at least two cells away from every edge.
Interior(g) == {q \in Cells(g) : q[1] \in 3..(g.h - 2) /\ q[2] \in 3..(g.w - 2)}

\* The mask holds one class id in every cell.
IsUniform(mask) == \A q \in Cells(mask) : CellOf(mask, q) = mask.a[1][1]

IdsOf(g) == {CellOf(g, q) : q \in Cells(g)}

\* generate_dataset is running or has returned.
InDataset == fn = "generate_dataset" /\ pc \in {"loop", "done"} /\ run.active

\* C14: for every sample generate_dataset has written, the label raster got
\* by the nearest-neighbour resize has the output size and holds only ids
\* that its class grid held before the resize, and so does the label written.
C14_ResizeClosure ==
    InDataset
        => \A i \in 1..Len(run.samples) :
              LET sm == run.samples[i]
              IN  /\ sm.resized.h = args.img_size /\ sm.resized.w = args.img_size
                  /\ IdsOf(sm.resized) \subseteq IdsOf(sm.labels)
                  /\ IdsOf(sm.label) \subseteq IdsOf(sm.labels)

\* A sample whose class grid of several classes was resized to another size.
C14_Witness ==
    /\ InDataset
    /\ args.img_size # args.grid
    /\ \E i \in 1..Len(run.samples) :
          /\ Cardinality(IdsOf(run.samples[i].labels)) >= 2
          /\ Cardinality(IdsOf(run.samples[i].resized)) >= 2
          /\ run.samples[i].resized.h # run.samples[i].labels.h

\* C18: when generate_dataset(n, val_split) returns, for any n >= 0, the train
\* and val counts are non-negative and sum to n, exactly n images and n
\* annotations were written, their stems are 0..n-1, and every image has the
\* annotation of the same stem in the same split and conversely.
C18_WritesNPairs ==
    (Called("generate_dataset") /\ ret.raised = NoError)
        => LET imgs == {f \in run.files : f[1] = "images"}
               anns == {f \in run.files : f[1] = "annotations"}
           IN  /\ run.splits.train >= 0
               /\ run.splits.val >= 0
               /\ run.splits.train + run.splits.val = args.n
               /\ Cardinality(imgs) = args.n
               /\ Cardinality(anns) = args.n
               /\ {f[3] : f \in imgs} = 0..(args.n - 1)
               /\ \A f \in imgs : <<"annotations", f[2], f[3]>> \in run.files
               /\ \A f \in anns : <<"images", f[2], f[3]>> \in run.files

\* C16: the class gen_desert and gen_rocky leave in a cell is the class of
\* the last rule of the list whose predicate holds there, the style default
\* (Sand, Rock) when none holds; a desert cell with noise > 0.96 is Obstacle
\* whatever its wave, a rocky cell more than 0.35 from the centre line with
\* noise > 0.88 is Bush.
C16_LastWriteWins ==
    /\ Called("gen_desert.cell")
         => LET w == args.wave
                r == args.r
            IN  /\ ret.value =
                      IF r > 960 THEN 9
                      ELSE IF Lt(w, 0) THEN 4
                      ELSE IF Gt(w, 220) /\ r > 900 THEN 2
                      ELSE IF Gt(w, 300) /\ r > 780 THEN 1
                      ELSE IF Gt(w, 450) THEN 0
                      ELSE 3
                /\ r > 960 => ret.value = 9
    /\ Called("gen_rocky.cell")
         => LET w == args.wave
                r == args.r
                far  == AbsHalfGt(args.i, args.den, 35)
                near == AbsHalfLt(args.i, args.den, 12)
            IN  /\ ret.value =
                      IF far /\ r > 880 THEN 1
                      ELSE IF near /\ r > 860 THEN 2
                      ELSE IF AbsHalfLt(args.i, args.den, 7) /\ r < 550 THEN 3
                      ELSE IF near THEN 6
                      ELSE IF Lt(w, -200) THEN 8
                      ELSE IF Gt(w, 380) THEN 9
                      ELSE 0
                /\ (far /\ r > 880) => ret.value = 1

\* A desert cell where the Rock, Bush and Log rules all hold and the
\* Obstacle rule, the last, decides.
C16_Witness ==
    /\ Called("gen_desert.cell")
    /\ Gt(args.wave, 450)
    /\ args.r > 960
    /\ ret.value = 9

\* The class of a gen_mixed cell after the rules of lines 108-127, which
\* write whatever the cell holds: the last of them that holds, Landscape
\* when none does.
MixedBeforePaths(c) ==
    LET rock_zone == CoordGt(c.i, c.den, 65) /\ CoordLt(c.j, c.den, 35)
        veg_zone  == CoordLt(c.i, c.den, 35) /\ CoordLt(c.j, c.den, 35)
    IN  IF c.r > 970 THEN 9
        ELSE IF AbsHalfLt(c.i, c.den, 10) /\ AbsHalfLt(c.j, c.den, 10) /\ c.r > 650 THEN 5
        ELSE IF AbsDiffLt(c.i, c.j, c.den, 4) /\ c.r > 800 THEN 2
        ELSE IF veg_zone /\ c.r > 700 THEN 1
        ELSE IF veg_zone THEN 8
        ELSE IF rock_zone /\ Gt(c.wave, 350) THEN 9
        ELSE IF rock_zone /\ Gt(c.wave, 200) THEN 0
        ELSE IF HypotGe(c.i, c.j, c.den, 18) /\ HypotLt(c.i, c.j, c.den, 27) THEN 6
        ELSE IF HypotLt(c.i, c.j, c.den, 18) THEN 7
        ELSE 4

\* The cell lies on a gravel path of gen_mixed (line 130).
OnGravelPath(c) == AbsHalfLt(c.i, c.den, 6) \/ AbsHalfLt(c.j, c.den, 6)

\* C17: in gen_mixed a cell that an earlier rule gave a class other than
\* Landscape keeps it through the gravel-path and sand-strip rules; a cell
\* still Landscape becomes Gravel on a gravel path, and otherwise Sand where
\* wave > 0.15 and noise > 0.6; no cell on a gravel path ends as Landscape
\* or Sand.
C17_LiveGridRules ==
    Called("gen_mixed.cell")
        => LET before == MixedBeforePaths(args)
               strip  == Gt(args.wave, 150) /\ args.r > 600
           IN  /\ before # 4 => ret.value = before
               /\ (before = 4 /\ OnGravelPath(args)) => ret.value = 6
               /\ (before = 4 /\ ~OnGravelPath(args) /\ strip) => ret.value = 3
               /\ (before = 4 /\ ~OnGravelPath(args) /\ ~strip) => ret.value = 4
               /\ OnGravelPath(args) => ret.value \notin {3, 4}

\* A cell on a gravel path and in a sand strip that an earlier rule made
\* Clear, and keeps it.
C17_Witness ==
    /\ Called("gen_mixed.cell")
    /\ OnGravelPath(args)
    /\ Gt(args.wave, 150)
    /\ args.r > 650
    /\ MixedBeforePaths(args) = 5
    /\ ret.value = 5

\* C19: /segment and /costmap answer an upload whose content type is not an
\* image with status 400, and answer 500 only when the upload was an image,
\* that is for a failure of decoding, inference or cost-map generation.
C19_BadUploadIs400 ==
    (pc = "done" /\ fn \in {"segment_image", "generate_costmap_only"})
        => /\ (args.content_type = "text/plain") => ret.status = 400
           /\ ret.status = 500
                 => (IsImage(args.content_type)
                       /\ ret.cause \in {"UnidentifiedImageError", "RuntimeError",
                                         "AttributeError", "cv2.error"})

\* The largest validation mIoU of the epochs run.
MaxMiou(ms) == CHOOSE m \in {ms[i].val_miou : i \in 1..Len(ms)} :
                  \A i \in 1..Len(ms) : ms[i].val_miou <= m

\* C20: when train returns, the best_val_miou it reported is the largest
\* validation mIoU of its epochs, the checkpoint at "best" holds the weights
\* of the first epoch that reached it, and the path returned, "best", is a
\* checkpoint that was saved.
C20_BestCheckpoint ==
    Called("train")
        => LET ms == run.all_metrics
           IN  /\ run.metrics.best_val_miou = MaxMiou(ms)
               /\ run.saved[ret.value] # NotSaved
               /\ run.saved.best # NotSaved
                     => /\ ms[run.saved.best].val_miou = MaxMiou(ms)
                        /\ \A i \in 1..(run.saved.best - 1) : ms[i].val_miou < MaxMiou(ms)

\* C21: two runs of generate_dataset with the same seed and n, one with
\* augmentation and one without, generate the same class grid for every
\* sample index: the terrain seed drawn for a sample, and so the grid
\* gen_random makes of it, does not depend on the augment flag.
C21_SampleIndependence ==
    (Called("generate_dataset") /\ prev.set /\ ret.raised = NoError)
        => /\ Len(run.samples) = Len(prev.ret.value)
           /\ \A i \in 1..Len(run.samples) :
                 /\ run.samples[i].s = prev.ret.value[i].s
                 /\ run.samples[i].labels = prev.ret.value[i].labels

====
